---- MODULE Spec2Model ----
(***************************************************************************)
(* waze-home-cli: one invocation of the command line tool.  A command      *)
(* looks two named locations up in the configuration, asks get_route for   *)
(* a route between the two addresses (geocoding, routing request,          *)
(* normalisation or mock fallback), formats the result and exits.          *)
(***************************************************************************)
EXTENDS Integers, Sequences, FiniteSets, TLC

\* ------------------------------------------------------------------ bounds

\* Longest jam list a provider route carries in the model.
MaxJams == 7

\* Readings of datetime.now(), in seconds since midnight (10:00:00, 23:59:30).
Clock == {36000, 86370}

\* ----------------------------------------------------------- addresses

HOME == "91 Abbett St, Scarborough WA 6019"
WORK == "11 Mount St, Perth WA 6000"
\* An address that is in none of the built-in tables.
ELSEWHERE == "1 Hay St, Subiaco WA 6008"

\* Location names a command may be given.
Names == {"home", "work", "gym", "nowhere"}

\* dict.get(k, default) on a mapping modelled as a function.
Get(d, k, default) == IF k \in DOMAIN d THEN d[k] ELSE default

EmptyMap == [k \in {} |-> ""]

\* ------------------------------------------------------------ config.py

DEFAULT_LOCATIONS == [k \in {"home", "work"} |-> IF k = "home" THEN HOME ELSE WORK]

VARIABLES
    config_exists,       \* CONFIG_FILE.exists()
    config_doc,          \* the JSON document of CONFIG_FILE (read when it exists)
    environ,             \* os.environ, the variables that are set
    pc,                  \* "start" before the command runs, "done" after it
    command,             \* the command line of the invocation: its name and arguments
    saved,               \* the documents save_config wrote, in order
    origin_address,      \* get_location(origin)
    destination_address, \* get_location(destination)
    requests,            \* the provider requests issued, in order
    geocode_data,        \* the provider's two geocoding responses
    waze_data,           \* the provider's routing response
    now,                 \* the reading of datetime.now() the result was built with
    route_data,          \* what get_route returned
    formatted_route,     \* what format_route_info returned
    console,             \* what the command printed
    exit_code            \* the exit status of the process

vars == <<config_exists, config_doc, environ, pc, command, saved, origin_address,
          destination_address, requests, geocode_data, waze_data, now,
          route_data, formatted_route, console, exit_code>>

\* Mutation: the environment is not consulted.
get_config_DefaultsOnly ==
    IF config_exists
    THEN config_doc
    ELSE [locations |-> DEFAULT_LOCATIONS, waze_api_key |-> ""]

get_config ==
    IF config_exists
    THEN config_doc
    ELSE [locations |->
             [k \in {"home", "work"} |->
                 IF k = "home"
                 THEN Get(environ, "WAZE_HOME_LOCATION", DEFAULT_LOCATIONS["home"])
                 ELSE Get(environ, "WAZE_WORK_LOCATION", DEFAULT_LOCATIONS["work"])],
          waze_api_key |-> Get(environ, "WAZE_API_KEY", "")]

\* Mutation: no built-in default.
get_location_NoDefault(name) ==
    Get(Get(get_config, "locations", EmptyMap), name, "")

get_location(name) ==
    Get(Get(get_config, "locations", EmptyMap), name, Get(DEFAULT_LOCATIONS, name, ""))

\* d[k] = v on a mapping.
MapSet(d, k, v) == [x \in DOMAIN d \cup {k} |-> IF x = k THEN v ELSE d[x]]

\* Mutation: the document is built anew from the one location.
set_location_Fresh(name, address) ==
    [locations |-> MapSet(EmptyMap, name, address),
     waze_api_key |-> Get(get_config, "waze_api_key", "")]

\* The document set_location(name, address) hands to save_config.
set_location(name, address) ==
    LET config == get_config
        locations == Get(config, "locations", EmptyMap)
    IN MapSet(config, "locations", MapSet(locations, name, address))

\* save_config(config): the file holds the document (json.dump and json.load
\* of a mapping of strings give the mapping back).
save_config(config) ==
    /\ config_exists' = TRUE
    /\ config_doc' = config
    /\ saved' = Append(saved, config)

\* ------------------------------------------------------- JSON values

\* A JSON value read where a number is expected: the key is absent, or the
\* value is a number, or it is of another type (a string, null).
Absent == [t |-> "absent", v |-> 0]
Num(n) == [t |-> "num", v |-> n]
Str == [t |-> "str", v |-> 0]

IsNum(x) == x.t = "num"

\* datetime.strftime("%H:%M") of a time given in seconds since midnight of
\* the day the clock was read; the date and the seconds are dropped.
strftime(t) == <<(t \div 3600) % 24, (t \div 60) % 60>>

\* A result without routes (what no call of get_route returns).
NoRoute == [routes |-> <<>>]

\* ----------------------------------------------------------- waze_api.py

DefaultCoordinates == <<-319505, 1158605>>

\* Coordinates are in units of 0.0001 degree.
geocode_db ==
    [a \in {HOME, WORK} |->
        IF a = HOME THEN <<-318941, 1157586>> ELSE <<-319523, 1158613>>]

\* Mutation: the table is consulted before the response.
_get_coordinates_from_address_TableFirst(address, response) ==
    IF address \in DOMAIN geocode_db THEN geocode_db[address]
    ELSE IF response.kind = "hit" THEN response.location
    ELSE DefaultCoordinates

\* response: what the geocoding request did: "raise" (the request, the
\* status check or the parsing raised, or the first geocode has no
\* location), "empty" (no geocodes) or "hit" (a first geocode at .location).
_get_coordinates_from_address(address, response) ==
    CASE response.kind = "hit" -> response.location
      [] response.kind = "empty" ->
            IF address \in DOMAIN geocode_db
            THEN geocode_db[address]
            ELSE DefaultCoordinates
      [] response.kind = "raise" ->
            IF address \in DOMAIN geocode_db
            THEN geocode_db[address]
            ELSE DefaultCoordinates

\* Mutation: the travel times of another version of the table.
MockTravelTimeMinutes_OtherTable(origin, destination) == 69

MockTravelTimeMinutes(origin, destination) ==
    IF origin = HOME /\ destination = WORK THEN 25
    ELSE IF origin = WORK /\ destination = HOME THEN 22
    ELSE 20

MockDistanceMeters(origin, destination) ==
    IF origin = HOME /\ destination = WORK THEN 14200
    ELSE IF origin = WORK /\ destination = HOME THEN 14200
    ELSE 12000

MockDirections(origin, destination) ==
    IF origin = HOME /\ destination = WORK
    THEN << "Head south on Abbett St toward Brighton Rd",
            "Turn right onto Scarborough Beach Rd",
            "Turn left onto West Coast Hwy",
            "Continue onto Mounts Bay Rd",
            "Turn right onto Mount St",
            "Arrive at destination on left" >>
    ELSE IF origin = WORK /\ destination = HOME
    THEN << "Head north on Mount St toward St Georges Terrace",
            "Turn left onto Mounts Bay Rd",
            "Continue onto West Coast Hwy",
            "Turn right onto Scarborough Beach Rd",
            "Turn left onto Abbett St",
            "Arrive at destination on right" >>
    ELSE << "Start driving",
            "Continue straight",
            "Turn at the intersection",
            "Keep going",
            "Arrive at destination" >>

\* t: the reading of datetime.now().
_get_mock_route_data(origin, destination, t) ==
    LET travel_time_minutes == MockTravelTimeMinutes(origin, destination)
        distance_meters == MockDistanceMeters(origin, destination)
    IN [routes |-> <<
          [summary |->
              [totalLength |-> Num(distance_meters),
               totalTime |-> Num(travel_time_minutes * 60),
               arrivalTime |-> strftime(t + travel_time_minutes * 60),
               departureTime |-> strftime(t)],
           directions |-> MockDirections(origin, destination),
           traffic_conditions |-> "Light to moderate traffic",
           has_alternate_routes |-> TRUE,
           alternate_routes |-> <<
              [name |-> [prefix |-> "Alternative via", road |-> "Mitchell Freeway",
                         index |-> 0],
               total_time |-> Num((travel_time_minutes + 5) * 60),
               total_distance |-> Num(distance_meters + 2000)],
              [name |-> [prefix |-> "Alternative via", road |-> "inland roads",
                         index |-> 0],
               total_time |-> Num((travel_time_minutes + 8) * 60),
               total_distance |-> Num(distance_meters - 1000)] >>] >>]

\* Mutation: the thresholds are inclusive.
JamLabel_Inclusive(jam_count) ==
    IF jam_count >= 5 THEN "Heavy traffic"
    ELSE IF jam_count >= 2 THEN "Moderate traffic"
    ELSE "Light traffic with some congestion"

\* The label of a route with jam_count jam segments (lines 252-257).
JamLabel(jam_count) ==
    IF jam_count > 5 THEN "Heavy traffic"
    ELSE IF jam_count > 2 THEN "Moderate traffic"
    ELSE "Light traffic with some congestion"

\* route: one alternative of the provider's response.  jams is absent,
\* a list of .n segments, or a number .n where a list is expected.
_get_traffic_condition(route) ==
    IF ~route.hasResponse
    THEN "Unknown traffic conditions"
    ELSE LET response == route
         IN IF response.jams.t = "num" /\ response.jams.n # 0
            THEN "Unknown traffic conditions"     \* len() raises, caught
            ELSE IF response.jams.t = "list" /\ response.jams.n > 0
            THEN JamLabel(response.jams.n)
            ELSE IF response.routeType.t = "str" /\ response.routeType.v = "SLOW"
            THEN "Heavy traffic"
            ELSE IF response.routeType.t = "str" /\ response.routeType.v = "MODERATE"
            THEN "Moderate traffic"
            ELSE IF response.routeType.t = "str" /\ response.routeType.v = "FAST"
            THEN "Light traffic"
            ELSE "Normal traffic conditions"

\* The directions of the best route: the "instruction" of every entry of
\* "instructions" that has one.
RECURSIVE ExtractDirections(_)
ExtractDirections(instructions) ==
    IF instructions = <<>>
    THEN <<>>
    ELSE (IF Head(instructions).has THEN <<Head(instructions).text>> ELSE <<>>)
         \o ExtractDirections(Tail(instructions))

\* f"Alternative via {road}" or f"Alternative route {index}".
AltName(prefix, road, index) == [prefix |-> prefix, road |-> road, index |-> index]

\* The name of the i-th further alternative.
AlternateName(alt_response, i) ==
    LET major_roads == SelectSeq(alt_response.streetNames, LAMBDA name : name # "")
    IN IF major_roads # <<>>
       THEN AltName("Alternative via", major_roads[1], 0)
       ELSE AltName("Alternative route", "", i)

\* alternate_routes of the further alternatives rest[i..]: one entry for
\* every alternative that has a "response".
RECURSIVE BuildAlternateRoutes(_, _)
BuildAlternateRoutes(rest, i) ==
    IF i > Len(rest)
    THEN <<>>
    ELSE (IF rest[i].hasResponse
          THEN << [name |-> AlternateName(rest[i], i),
                   total_time |->
                       IF rest[i].totalSeconds.t = "absent"
                       THEN Num(0) ELSE rest[i].totalSeconds,
                   total_distance |->
                       IF rest[i].totalLength.t = "absent"
                       THEN Num(0) ELSE rest[i].totalLength] >>
          ELSE <<>>)
         \o BuildAlternateRoutes(rest, i + 1)

\* The statement at line 164 raises: the payload is a JSON number, and
\* "alternatives" not in <number> is a TypeError outside the try block.
TransformRaises(data) == data.kind = "num"

\* best_route.get("response", {}).get("totalSeconds", 1200)
TravelTimeSeconds(best_route) ==
    IF best_route.hasResponse /\ best_route.totalSeconds.t # "absent"
    THEN best_route.totalSeconds
    ELSE Num(1200)

\* The try block of lines 168-226 raises: timedelta(seconds=...) is given a
\* value that is no number, or "instructions" is a number and is iterated.
NormalizeRaises(best_route) ==
    \/ ~IsNum(TravelTimeSeconds(best_route))
    \/ best_route.hasResponse /\ best_route.instructions.t = "num"

\* Mutation: no default directions.
DirectionsOrDefault_Kept(found) == found

\* "If no directions were found, provide default ones" (lines 185-186).
DirectionsOrDefault(found) ==
    IF found = <<>>
    THEN <<"Start driving", "Follow the route", "Arrive at destination">>
    ELSE found

\* data: the parsed routing response; t: the reading of datetime.now().
_transform_waze_response(data, origin, destination, t) ==
    IF data.kind \in {"empty", "no_alternatives"} \/ data.alternatives = <<>>
    THEN _get_mock_route_data(origin, destination, t)
    ELSE LET best_route == data.alternatives[1]
             travel_time_seconds == TravelTimeSeconds(best_route)
             found == IF best_route.hasResponse /\ best_route.instructions.t = "list"
                      THEN ExtractDirections(best_route.instructions.items)
                      ELSE <<>>
             directions == DirectionsOrDefault(found)
             alternate_routes == BuildAlternateRoutes(Tail(data.alternatives), 1)
         IN IF NormalizeRaises(best_route)
            THEN _get_mock_route_data(origin, destination, t)
            ELSE [routes |-> <<
                   [summary |->
                       [totalLength |->
                            IF best_route.hasResponse
                               /\ best_route.totalLength.t # "absent"
                            THEN best_route.totalLength
                            ELSE Num(10000),
                        totalTime |-> travel_time_seconds,
                        arrivalTime |-> strftime(t + travel_time_seconds.v),
                        departureTime |-> strftime(t)],
                    directions |-> directions,
                    traffic_conditions |-> _get_traffic_condition(best_route),
                    has_alternate_routes |-> alternate_routes # <<>>,
                    alternate_routes |-> alternate_routes] >>]

\* Mutation: a failed request is reported as a result without routes.
get_route_NoFallback(origin, destination, response, t) ==
    IF response.kind = "raise" \/ TransformRaises(response)
    THEN NoRoute
    ELSE _transform_waze_response(response, origin, destination, t)

\* response: what the routing request did: .kind = "raise" when the request,
\* the status check or the parsing raised, otherwise the parsed payload.
get_route(origin, destination, response, t) ==
    IF response.kind = "raise" \/ TransformRaises(response)
    THEN _get_mock_route_data(origin, destination, t)
    ELSE _transform_waze_response(response, origin, destination, t)

\* "{x / 1000:.1f}" in tenths of a kilometre (exact for multiples of 100 m).
Tenths(meters) == (meters + 50) \div 100

\* not route_data or "routes" not in route_data or not route_data["routes"]
\* (None and {} are both the mapping without keys).
NoRoutes(data) ==
    \/ DOMAIN data = {}
    \/ "routes" \notin DOMAIN data
    \/ data.routes = <<>>

\* format_route_info raises TypeError: a summary or alternate-route figure
\* is no number.
FormatRaises(data) ==
    /\ ~NoRoutes(data)
    /\ LET route == data.routes[1]
       IN \/ ~IsNum(route.summary.totalTime)
          \/ ~IsNum(route.summary.totalLength)
          \/ /\ route.has_alternate_routes
             /\ \E i \in DOMAIN route.alternate_routes :
                   \/ ~IsNum(route.alternate_routes[i].total_time)
                   \/ ~IsNum(route.alternate_routes[i].total_distance)

format_route_info(data) ==
    IF NoRoutes(data)
    THEN [status |-> "error", message |-> "No route found"]
    ELSE LET route == data.routes[1]
         IN [status |-> "success",
             summary |->
                 [total_time |-> route.summary.totalTime.v \div 60,
                  total_distance |-> Tenths(route.summary.totalLength.v),
                  departure_time |-> route.summary.departureTime,
                  arrival_time |-> route.summary.arrivalTime],
             directions |-> route.directions,
             traffic_conditions |-> route.traffic_conditions,
             has_alternate_routes |-> route.has_alternate_routes,
             alternate_routes |->
                 IF route.has_alternate_routes
                 THEN [i \in DOMAIN route.alternate_routes |->
                         [name |-> route.alternate_routes[i].name,
                          total_time |-> route.alternate_routes[i].total_time.v \div 60,
                          total_distance |->
                              Tenths(route.alternate_routes[i].total_distance.v)]]
                 ELSE <<>>]

\* ------------------------------------------------ the provider's behaviour

\* One alternative of a routing payload.  hasResponse: it has a "response"
\* object, whose fields the others are.
Alternative(hasResponse, seconds, meters, instructions, jams, routeType, roads) ==
    [hasResponse |-> hasResponse, totalSeconds |-> seconds, totalLength |-> meters,
     instructions |-> instructions, jams |-> jams, routeType |-> routeType,
     streetNames |-> roads]

NoInstructions == [t |-> "absent", items |-> <<>>]
InstructionList(items) == [t |-> "list", items |-> items]
NoJams == [t |-> "absent", n |-> 0]
JamList(n) == [t |-> "list", n |-> n]
NoRouteType == [t |-> "absent", v |-> ""]
RouteType(v) == [t |-> "str", v |-> v]

\* An alternative without a "response" object.
BareAlternative ==
    Alternative(FALSE, Absent, Absent, NoInstructions, NoJams, NoRouteType, <<>>)

InstructionValues ==
    { NoInstructions,
      [t |-> "num", items |-> <<>>],
      InstructionList(<< [has |-> FALSE, text |-> ""] >>),
      InstructionList(<< [has |-> FALSE, text |-> ""],
                         [has |-> TRUE, text |-> "Turn left onto Hay St"] >>) }

\* The first alternatives of the payloads of a command.
BestRoutes ==
    { Alternative(TRUE, s, l, i, j, NoRouteType, <<>>) :
        s \in {Absent, Str, Num(-60), Num(3600)},
        l \in {Absent, Str, Num(-1000), Num(29000)},
        i \in InstructionValues,
        j \in {NoJams, JamList(3)} }
    \cup {BareAlternative}

\* The further alternatives of the payloads of a command.
FurtherRoutes ==
    { <<>>,
      << BareAlternative,
         Alternative(TRUE, Num(4000), Absent, NoInstructions, NoJams,
                     NoRouteType, <<"", "Mitchell Fwy">>) >>,
      << Alternative(TRUE, Absent, Str, NoInstructions, NoJams,
                     NoRouteType, <<>>) >> }

Payload(kind, alternatives) == [kind |-> kind, alternatives |-> alternatives]

\* What a routing request can do: raise; or return an empty payload (null,
\* {}), one without "alternatives", a number, or an object with alternatives.
RoutingResponses ==
    { Payload(k, <<>>) : k \in {"raise", "empty", "no_alternatives", "num", "object"} }
    \cup { Payload("object", <<b>> \o r) : b \in BestRoutes, r \in FurtherRoutes }

GeocodeResponses ==
    { [kind |-> "raise", location |-> <<0, 0>>],
      [kind |-> "empty", location |-> <<0, 0>>],
      [kind |-> "hit", location |-> <<-319000, 1158000>>] }

\* The configurations a command may find.
StoredDocs ==
    { [locations |-> [k \in {"gym"} |-> ELSEWHERE], waze_api_key |-> ""],
      [locations |-> [k \in {"home", "work"} |-> IF k = "home" THEN "" ELSE ELSEWHERE],
       waze_api_key |-> "key"] }

Environments ==
    { EmptyMap, [k \in {"WAZE_HOME_LOCATION"} |-> ELSEWHERE] }

NoPayload == Payload("none", <<>>)
NoFormatted == [status |-> "none"]
NoCommand == [name |-> "", args |-> <<>>]

\* ------------------------------------------------------------------ cli.py

\* A process of the tool before its command runs.
InitProcess ==
    /\ pc = "start"
    /\ command = NoCommand
    /\ saved = <<>>
    /\ origin_address = ""
    /\ destination_address = ""
    /\ requests = <<>>
    /\ geocode_data = <<>>
    /\ waze_data = NoPayload
    /\ now = 0
    /\ route_data = NoRoute
    /\ formatted_route = NoFormatted
    /\ console = <<>>
    /\ exit_code = 0

Init ==
    /\ \/ /\ config_exists = FALSE
          /\ config_doc = [locations |-> EmptyMap, waze_api_key |-> ""]
          /\ environ \in Environments
       \/ /\ config_exists = TRUE
          /\ config_doc \in StoredDocs
          /\ environ = EmptyMap
    /\ InitProcess

GeocodeRequest(address) == [kind |-> "geocode", na |-> <<address>>, ll |-> <<>>]
RoutingRequest(origin, origin_coords, destination, destination_coords) ==
    [kind |-> "routing", na |-> <<origin, destination>>,
     ll |-> <<origin_coords, destination_coords>>]

\* Mutation: no address counts as missing.
NotFound_Never(address) == FALSE

\* "if not origin_address", "if not destination_address".
NotFound(address) == address = ""

\* The body shared by route, go_home and go_to_work.
RouteCommand(origin, destination) ==
    /\ pc = "start"
    /\ pc' = "done"
    /\ origin_address' = get_location(origin)
    /\ destination_address' = get_location(destination)
    /\ UNCHANGED <<config_exists, config_doc, environ, saved>>
    /\ IF NotFound(origin_address') \/ NotFound(destination_address')
       THEN /\ console' = << <<"Error", "Location not found",
                               IF NotFound(origin_address') THEN origin ELSE destination>> >>
            /\ exit_code' = 1
            /\ UNCHANGED <<requests, geocode_data, waze_data, now, route_data,
                           formatted_route>>
       ELSE \E g1 \in GeocodeResponses, g2 \in GeocodeResponses,
               response \in RoutingResponses, t \in Clock :
            /\ geocode_data' = <<g1, g2>>
            /\ requests' =
                 << GeocodeRequest(origin_address'),
                    GeocodeRequest(destination_address'),
                    RoutingRequest(
                        origin_address',
                        _get_coordinates_from_address(origin_address', g1),
                        destination_address',
                        _get_coordinates_from_address(destination_address', g2)) >>
            /\ waze_data' = response
            /\ now' = t
            /\ route_data' = get_route(origin_address', destination_address', response, t)
            /\ IF FormatRaises(route_data')
               THEN /\ formatted_route' = NoFormatted
                    /\ console' = << <<"Error", "TypeError", "">> >>
                    /\ exit_code' = 1
               ELSE /\ formatted_route' = format_route_info(route_data')
                    /\ IF formatted_route'.status = "error"
                       THEN /\ console' = << <<"Error", formatted_route'.message, "">> >>
                            /\ exit_code' = 1
                       ELSE /\ console' =
                                 << <<"Route Summary", "", "">>, <<"Directions", "", "">> >>
                                 \o (IF formatted_route'.has_alternate_routes
                                     THEN << <<"Alternative Routes", "", "">> >>
                                     ELSE <<>>)
                            /\ exit_code' = 0

route ==
    \E origin \in Names, destination \in Names :
        /\ command' = [name |-> "route", args |-> <<origin, destination>>]
        /\ RouteCommand(origin, destination)

go_home ==
    /\ command' = [name |-> "home", args |-> <<>>]
    /\ RouteCommand("work", "home")

go_to_work ==
    /\ command' = [name |-> "work", args |-> <<>>]
    /\ RouteCommand("home", "work")

Next == route \/ go_home \/ go_to_work

Spec == Init /\ [][Next]_vars

\* ------------------------------------------------- the normalizer alone

\* The first alternatives the normalizer is applied to.
TrafficRoutes ==
    { Alternative(TRUE, s, l, NoInstructions, j, r, <<>>) :
        s \in {Absent, Str, Num(1800), Num(3600)},
        l \in {Absent, Num(14500), Num(29000), Num(49000), Num(69000), Num(71000)},
        j \in {NoJams, [t |-> "num", n |-> 3]} \cup {JamList(n) : n \in 0..MaxJams},
        r \in {NoRouteType} \cup
              {RouteType(v) : v \in {"SLOW", "MODERATE", "FAST", "UNKNOWN"}} }
    \cup {BareAlternative}

\* The payloads the normalizer is applied to (none that makes line 164 raise).
NormalizerPayloads ==
    { Payload(k, <<>>) : k \in {"empty", "no_alternatives", "object"} }
    \cup { Payload("object", <<b>>) : b \in TrafficRoutes }

\* _transform_waze_response applied to a payload.
normalize ==
    /\ pc = "start"
    /\ pc' = "done"
    /\ \E origin \in {HOME, ELSEWHERE}, data \in NormalizerPayloads, t \in Clock :
        /\ origin_address' = origin
        /\ destination_address' = WORK
        /\ waze_data' = data
        /\ now' = t
        /\ route_data' = _transform_waze_response(waze_data', origin, WORK, t)
    /\ UNCHANGED <<config_exists, config_doc, environ, command, saved, requests,
                   geocode_data, formatted_route, console, exit_code>>

SpecNormalize == Init /\ [][normalize]_vars

\* -------------------------- get_route and format_route_info called directly

\* The addresses a caller may pass to get_route.
Addresses == {"", HOME, ELSEWHERE}

\* Results without routes: {} (or None), an object without "routes", and an
\* object whose "routes" is empty.
ResultsWithoutRoutes ==
    { EmptyMap, [status |-> "error", message |-> "No route found"], NoRoute }

InitApi == Init /\ ~config_exists /\ environ = EmptyMap

\* get_route(origin, destination), whatever the addresses.
call_get_route ==
    /\ pc = "start"
    /\ pc' = "routed"
    /\ \E origin \in Addresses, destination \in Addresses,
          g1 \in GeocodeResponses, g2 \in GeocodeResponses,
          response \in RoutingResponses, t \in Clock :
        /\ origin_address' = origin
        /\ destination_address' = destination
        /\ geocode_data' = <<g1, g2>>
        /\ requests' =
             << GeocodeRequest(origin),
                GeocodeRequest(destination),
                RoutingRequest(origin, _get_coordinates_from_address(origin, g1),
                               destination,
                               _get_coordinates_from_address(destination, g2)) >>
        /\ waze_data' = response
        /\ now' = t
        /\ route_data' = get_route(origin, destination, response, t)
    /\ UNCHANGED <<config_exists, config_doc, environ, command, saved,
                   formatted_route, console, exit_code>>

\* format_route_info(route_data), of the result of get_route or of a result
\* without routes; formatted_route stays as it was when the call raises.
call_format_route_info ==
    /\ pc \in {"start", "routed"}
    /\ pc' = "done"
    /\ \E data \in (IF pc = "routed" THEN {route_data} ELSE ResultsWithoutRoutes) :
        /\ route_data' = data
        /\ formatted_route' =
              IF FormatRaises(data) THEN NoFormatted ELSE format_route_info(data)
    /\ UNCHANGED <<config_exists, config_doc, environ, command, saved, origin_address,
                   destination_address, requests, geocode_data, waze_data, now,
                   console, exit_code>>

SpecApi == InitApi /\ [][call_get_route \/ call_format_route_info]_vars

\* --------------------------------------------- cli.py, the location commands

\* str.lower on the names the commands are given.
lower(name) == IF name = "Gym" THEN "gym" ELSE name

\* Names as typed on the command line; "" stands for no argument.
TypedNames == {"home", "work", "gym", "Gym", "nowhere"}
TypedAddresses == {"", HOME, ELSEWHERE}

ConfigDocs ==
    StoredDocs \cup
    { [waze_api_key |-> "key"],
      [locations |-> EmptyMap, waze_api_key |-> ""] }

ConfigEnvironments ==
    Environments \cup
    { [WAZE_HOME_LOCATION |-> ELSEWHERE, WAZE_WORK_LOCATION |-> "",
       WAZE_API_KEY |-> "env_api_key"] }

InitConfig ==
    /\ \/ /\ config_exists = FALSE
          /\ config_doc = [locations |-> EmptyMap, waze_api_key |-> ""]
       \/ /\ config_exists = TRUE
          /\ config_doc \in ConfigDocs
    /\ environ \in ConfigEnvironments
    /\ InitProcess

\* waze-home set-location NAME ADDRESS
set_location_cmd ==
    /\ pc = "start"
    /\ pc' = "done"
    /\ \E name \in TypedNames, address \in TypedAddresses :
          /\ command' = [name |-> "set-location", args |-> <<name, address>>]
          /\ save_config(set_location(lower(name), address))
          /\ console' = << <<"Location set", name, address>> >>
          /\ exit_code' = 0
    /\ UNCHANGED <<environ, origin_address, destination_address, requests,
                   geocode_data, waze_data, now, route_data, formatted_route>>

\* waze-home locations [NAME]
get_location_cmd ==
    /\ pc = "start"
    /\ pc' = "done"
    /\ \E name \in TypedNames \cup {""} :
          /\ command' = [name |-> "locations", args |-> <<name>>]
          /\ IF name # ""
             THEN LET address == get_location(lower(name))
                  IN IF address # ""
                     THEN /\ console' = << <<"Location", name, address>> >>
                          /\ exit_code' = 0
                     ELSE /\ console' = << <<"Error", "Location not found", name>> >>
                          /\ exit_code' = 1
             ELSE LET locations == Get(get_config, "locations", EmptyMap)
                  IN /\ console' = IF DOMAIN locations = {}
                                   THEN << <<"No locations set", "", "">> >>
                                   ELSE << [table |-> "Saved Locations", rows |-> locations] >>
                     /\ exit_code' = 0
    /\ UNCHANGED <<config_exists, config_doc, environ, saved, origin_address,
                   destination_address, requests, geocode_data, waze_data, now,
                   route_data, formatted_route>>

\* The process ends and the tool is run again on the same file and environment.
invoke_again ==
    /\ pc = "done"
    /\ pc' = "start"
    /\ command' = NoCommand
    /\ saved' = <<>>
    /\ console' = <<>>
    /\ exit_code' = 0
    /\ UNCHANGED <<config_exists, config_doc, environ, origin_address,
                   destination_address, requests, geocode_data, waze_data, now,
                   route_data, formatted_route>>

NextConfig == set_location_cmd \/ get_location_cmd \/ invoke_again

SpecConfig == InitConfig /\ [][NextConfig]_vars

\* ------------------------------------------------------------- properties

\* get_route was called and returned.
Routed == pc = "done" /\ route_data # NoRoute

\* The result is the normalized first alternative (lines 207-226).
LivePath ==
    /\ Routed
    /\ waze_data.kind = "object"
    /\ waze_data.alternatives # <<>>
    /\ ~NormalizeRaises(waze_data.alternatives[1])

\* The result is mock data: the request raised, the payload has no usable
\* alternatives, or the normalization raised.
MockPath == Routed /\ ~LivePath

Summary == route_data.routes[1].summary

\* C1: every result of get_route has arrival = departure + totalTime, and
\* totalTime >= 0 and totalLength >= 0, on the live and on the mock path.
C1_RouteInvariants ==
    Routed =>
        /\ Summary.departureTime = strftime(now)
        /\ IsNum(Summary.totalTime)
        /\ Summary.arrivalTime = strftime(now + Summary.totalTime.v)
        /\ Summary.totalTime.v >= 0
        /\ IsNum(Summary.totalLength)
        /\ Summary.totalLength.v >= 0

\* The first alternative has no entry of "instructions" with an "instruction".
NoUsableInstruction ==
    LET best_route == waze_data.alternatives[1]
    IN \/ ~best_route.hasResponse
       \/ best_route.instructions.t = "absent"
       \/ \A i \in DOMAIN best_route.instructions.items :
              ~best_route.instructions.items[i].has

\* C2: the directions of the result of get_route, and of format_route_info
\* applied to it, are never empty: the placeholder sequence stands in when the
\* first alternative supplies no usable instruction.
C2_DirectionsNeverEmpty ==
    Routed =>
        /\ route_data.routes[1].directions # <<>>
        /\ formatted_route.status = "success" => formatted_route.directions # <<>>
        /\ (LivePath /\ NoUsableInstruction) =>
               route_data.routes[1].directions =
                   <<"Start driving", "Follow the route", "Arrive at destination">>

\* C2 witness: the first alternative has instructions, none of them usable,
\* and the placeholder sequence is shown.
C2_Witness ==
    /\ LivePath
    /\ waze_data.alternatives[1].instructions.t = "list"
    /\ waze_data.alternatives[1].instructions.items # <<>>
    /\ formatted_route.status = "success"
    /\ formatted_route.directions =
          <<"Start driving", "Follow the route", "Arrive at destination">>

\* C3: with both addresses non-empty the command ends with exit status 0 and
\* a formatted result of status "success", whatever the provider does.
C3_CommandNeverFails ==
    (pc = "done" /\ origin_address # "" /\ destination_address # "") =>
        /\ exit_code = 0
        /\ formatted_route.status = "success"

\* C4: a payload that is empty, lacks "alternatives" or has zero alternatives
\* gives the result a raising request gives: the mock result, not an error.
C4_EmptyPayloadIsMock ==
    (/\ pc = "done"
     /\ waze_data.kind \in {"raise", "empty", "no_alternatives", "object"}
     /\ waze_data.alternatives = <<>>) =>
        /\ route_data = _get_mock_route_data(origin_address, destination_address, now)
        /\ formatted_route.status = "success"

\* C4 witness: an object with zero alternatives was answered with mock data.
C4_Witness ==
    /\ pc = "done"
    /\ waze_data = Payload("object", <<>>)
    /\ route_data.routes # <<>>
    /\ route_data.routes[1].traffic_conditions = "Light to moderate traffic"
    /\ exit_code = 0

\* C5 as stated: the mock result of the known pair has totalTime 4140 s and
\* totalLength 14200 m, and two alternates at (+5 min, +2000 m), (+8 min, -1000 m).
C5_MockKnownPair69 ==
    (MockPath /\ origin_address = HOME /\ destination_address = WORK) =>
        LET alts == route_data.routes[1].alternate_routes
        IN /\ Summary.totalTime = Num(4140)
           /\ Summary.totalLength = Num(14200)
           /\ Len(alts) = 2
           /\ alts[1].total_time.v = Summary.totalTime.v + 5 * 60
           /\ alts[1].total_distance.v = Summary.totalLength.v + 2000
           /\ alts[2].total_time.v = Summary.totalTime.v + 8 * 60
           /\ alts[2].total_distance.v = Summary.totalLength.v - 1000

\* C5 amended: the mock result of the known pair has totalTime 1500 s
\* (25 minutes) and totalLength 14200 m, and exactly two alternates, at
\* (+5 min, +2000 m) and (+8 min, -1000 m) of the main route, in that order.
C5_MockKnownPair25 ==
    (MockPath /\ origin_address = HOME /\ destination_address = WORK) =>
        LET alts == route_data.routes[1].alternate_routes
        IN /\ Summary.totalTime = Num(1500)
           /\ Summary.totalLength = Num(14200)
           /\ route_data.routes[1].has_alternate_routes
           /\ Len(alts) = 2
           /\ alts[1].total_time = Num(1500 + 5 * 60)
           /\ alts[1].total_distance = Num(14200 + 2000)
           /\ alts[2].total_time = Num(1500 + 8 * 60)
           /\ alts[2].total_distance = Num(14200 - 1000)

\* C5 witness: the routing request raised on the known pair.
C5_Witness ==
    /\ Routed
    /\ waze_data.kind = "raise"
    /\ origin_address = HOME
    /\ destination_address = WORK
    /\ formatted_route.status = "success"
    /\ formatted_route.summary.total_time = 25

\* C6 as stated: the mock result of the reverse pair has the totalTime and
\* the totalLength of the mock result of the known pair.
C6_MockSymmetric ==
    (MockPath /\ origin_address = WORK /\ destination_address = HOME) =>
        LET forward == _get_mock_route_data(HOME, WORK, now).routes[1].summary
        IN /\ Summary.totalTime = forward.totalTime
           /\ Summary.totalLength = forward.totalLength

\* C6 amended: the mock result of the reverse pair has the totalLength of
\* the known pair (14200 m), and totalTime 1320 s (22 minutes) where the
\* known pair has 1500 s (25 minutes).
C6_MockSymmetricDistance ==
    (MockPath /\ origin_address = WORK /\ destination_address = HOME) =>
        LET forward == _get_mock_route_data(HOME, WORK, now).routes[1].summary
        IN /\ Summary.totalLength = forward.totalLength
           /\ Summary.totalLength = Num(14200)
           /\ Summary.totalTime = Num(1320)
           /\ forward.totalTime = Num(1500)

\* C6 witness: the normalization raised on the reverse pair.
C6_Witness ==
    /\ MockPath
    /\ waze_data.kind = "object"
    /\ waze_data.alternatives # <<>>
    /\ origin_address = WORK
    /\ destination_address = HOME
    /\ Summary.totalTime.v = 22 * 60

GenericDirections ==
    <<"Start driving", "Continue straight", "Turn at the intersection",
      "Keep going", "Arrive at destination">>

KnownPair ==
    \/ origin_address = HOME /\ destination_address = WORK
    \/ origin_address = WORK /\ destination_address = HOME

\* C7 as stated: the mock result of any other pair has totalTime 4140 s,
\* totalLength 12000 m and the five generic directions.
C7_MockGeneric69 ==
    (MockPath /\ ~KnownPair) =>
        /\ Summary.totalTime = Num(4140)
        /\ Summary.totalLength = Num(12000)
        /\ route_data.routes[1].directions = GenericDirections

\* C7 amended: the mock result of any pair that is neither the known pair nor
\* its reverse has totalTime 1200 s (20 minutes), totalLength 12000 m and
\* the five generic directions.
C7_MockGeneric20 ==
    (MockPath /\ ~KnownPair) =>
        /\ Summary.totalTime = Num(1200)
        /\ Summary.totalLength = Num(12000)
        /\ Len(route_data.routes[1].directions) = 5
        /\ route_data.routes[1].directions = GenericDirections

\* C7 witness: a payload without "alternatives" for a pair with an address
\* outside the table.
C7_Witness ==
    /\ MockPath
    /\ waze_data.kind = "no_alternatives"
    /\ origin_address = ELSEWHERE
    /\ destination_address = HOME
    /\ formatted_route.status = "success"
    /\ formatted_route.summary.total_time = 20
    /\ formatted_route.directions = GenericDirections

\* ------------------------------------------------ the traffic label

BestRoute == waze_data.alternatives[1]
TrafficLabel == route_data.routes[1].traffic_conditions

HasJams == BestRoute.hasResponse /\ BestRoute.jams.t = "list" /\ BestRoute.jams.n > 0
HasRouteType == BestRoute.hasResponse /\ BestRoute.routeType.t = "str"
HasSpeed ==
    /\ BestRoute.hasResponse
    /\ IsNum(BestRoute.totalSeconds) /\ BestRoute.totalSeconds.v > 0
    /\ IsNum(BestRoute.totalLength)

\* The label the specification derives from an average speed: the speed in
\* km/h is (meters / 1000) / (seconds / 3600).
SpeedLabel(meters, seconds) ==
    IF meters * 36 < 30 * seconds * 10 THEN "Heavy traffic"
    ELSE IF meters * 36 < 50 * seconds * 10 THEN "Moderate traffic"
    ELSE IF meters * 36 < 70 * seconds * 10 THEN "Light traffic with some congestion"
    ELSE "Light traffic"

\* C8: the label comes from the jam data when there is any, otherwise from
\* the route-speed classification, otherwise from the average speed, and is
\* "Unknown traffic conditions" when none of the three is present.
C8_TrafficPrecedence ==
    LivePath =>
        IF HasJams
        THEN TrafficLabel \in {"Heavy traffic", "Moderate traffic",
                               "Light traffic with some congestion"}
        ELSE IF HasRouteType
        THEN TrafficLabel \in {"Heavy traffic", "Moderate traffic", "Light traffic",
                               "Normal traffic conditions"}
        ELSE IF HasSpeed
        THEN TrafficLabel =
                 SpeedLabel(BestRoute.totalLength.v, BestRoute.totalSeconds.v)
        ELSE TrafficLabel = "Unknown traffic conditions"

\* C9: with a jam list of n >= 1 segments the label is Heavy for n > 5,
\* Moderate for 2 < n <= 5 and Light with some congestion for n <= 2.
C9_JamThresholds ==
    (LivePath /\ HasJams) =>
        LET n == BestRoute.jams.n
        IN /\ n \in 1..2 => TrafficLabel = "Light traffic with some congestion"
           /\ n \in 3..5 => TrafficLabel = "Moderate traffic"
           /\ n >= 6 => TrafficLabel = "Heavy traffic"

\* C9 witness: five segments and a classification of SLOW are Moderate.
C9_Witness ==
    /\ LivePath
    /\ HasJams
    /\ BestRoute.jams.n = 5
    /\ BestRoute.routeType = RouteType("SLOW")
    /\ TrafficLabel = "Moderate traffic"

\* C10: without jam data and without a classification, a route of 29 km/h is
\* Heavy, of 49 km/h Moderate, of 69 km/h Light with some congestion and of
\* 71 km/h Light.
C10_SpeedThresholds ==
    (/\ LivePath
     /\ ~HasJams /\ BestRoute.jams.t = "absent"
     /\ ~HasRouteType
     /\ BestRoute.hasResponse
     /\ BestRoute.totalSeconds = Num(3600)) =>
        /\ BestRoute.totalLength = Num(29000) => TrafficLabel = "Heavy traffic"
        /\ BestRoute.totalLength = Num(49000) => TrafficLabel = "Moderate traffic"
        /\ BestRoute.totalLength = Num(69000) =>
               TrafficLabel = "Light traffic with some congestion"
        /\ BestRoute.totalLength = Num(71000) => TrafficLabel = "Light traffic"

\* ------------------------------------------------ results and errors

\* C11: format_route_info answers a result that is empty, has no "routes" or
\* has no route with status "error" and "No route found", and any result
\* with a route with status "success": always one of the two.
C11_FormatSuccessOrError ==
    pc = "done" =>
        IF \/ DOMAIN route_data = {}
           \/ "routes" \notin DOMAIN route_data
           \/ route_data.routes = <<>>
        THEN formatted_route = [status |-> "error", message |-> "No route found"]
        ELSE formatted_route.status = "success"

\* C12: get_route given an empty origin or destination returns a result the
\* formatter reports with status "error", and no other input does.
C12_EmptyAddressIsError ==
    (pc = "done" /\ requests # <<>>) =>
        (formatted_route.status = "error"
            <=> (origin_address = "" \/ destination_address = ""))

\* The location names of a route, home or work command, origin first.
CommandNames ==
    IF command.name = "route" THEN command.args
    ELSE IF command.name = "home" THEN <<"work", "home">>
    ELSE <<"home", "work">>

\* C13: a route, home or work command one of whose names resolves to the
\* empty address prints an error and exits with a non-zero status without
\* issuing a geocoding or routing request; get_route runs only with two
\* non-empty addresses.
C13_MissingLocationStopsEarly ==
    (pc = "done" /\ command.name \in {"route", "home", "work"}) =>
        /\ (get_location(CommandNames[1]) = "" \/ get_location(CommandNames[2]) = "") =>
              /\ exit_code # 0
              /\ Len(console) = 1
              /\ console[1][1] = "Error"
              /\ console[1][3] = (IF get_location(CommandNames[1]) = ""
                                  THEN CommandNames[1] ELSE CommandNames[2])
              /\ requests = <<>>
              /\ geocode_data = <<>>
              /\ route_data = NoRoute
        /\ requests # <<>> =>
              /\ origin_address # ""
              /\ destination_address # ""
              /\ \A i \in DOMAIN requests : "" \notin { requests[i].na[j] : j \in DOMAIN requests[i].na }

\* C13 witness: the home command with an empty address stored for "home".
C13_Witness ==
    /\ pc = "done"
    /\ command.name = "home"
    /\ get_location("work") # ""
    /\ get_location("home") = ""
    /\ console = << <<"Error", "Location not found", "home">> >>
    /\ exit_code = 1
    /\ requests = <<>>

\* C14: looking a name up gives the stored address; a name that is not stored
\* gives the built-in default for home and work and "" for any other name, and
\* the locations command then reports the name as not found instead of failing.
ExpectedLocation(n) ==
    LET locations == IF "locations" \in DOMAIN get_config
                     THEN get_config.locations ELSE EmptyMap
    IN IF n \in DOMAIN locations THEN locations[n]
       ELSE IF n = "home" THEN HOME
       ELSE IF n = "work" THEN WORK
       ELSE ""

C14_LookupStoredOrDefault ==
    /\ \A n \in Names : get_location(n) = ExpectedLocation(n)
    /\ (pc = "done" /\ command.name = "locations" /\ command.args[1] # "") =>
          LET typed == command.args[1]
              expected == ExpectedLocation(IF typed = "Gym" THEN "gym" ELSE typed)
          IN IF expected # ""
             THEN console = << <<"Location", typed, expected>> >> /\ exit_code = 0
             ELSE console = << <<"Error", "Location not found", typed>> >> /\ exit_code = 1

C14_Witness ==
    /\ pc = "done"
    /\ command = [name |-> "locations", args |-> <<"home">>]
    /\ config_exists
    /\ "locations" \in DOMAIN config_doc
    /\ "home" \notin DOMAIN config_doc.locations
    /\ "gym" \in DOMAIN config_doc.locations
    /\ console = << <<"Location", "home", HOME>> >>

\* C15: set-location saves the configuration exactly once; the saved document
\* is the one loaded before with only the named location changed, so the name
\* then resolves to the new address and every other name resolves as before.
\* No other step changes what a name resolves to.
C15_SetLocationStep ==
    /\ \A typed \in TypedNames, address \in TypedAddresses :
          (pc = "start" /\ command' = [name |-> "set-location", args |-> <<typed, address>>]) =>
             LET name == IF typed = "Gym" THEN "gym" ELSE typed
                 before == get_config
                 old == IF "locations" \in DOMAIN before THEN before.locations ELSE EmptyMap
             IN /\ Len(saved') = 1
                /\ config_exists'
                /\ config_doc' = saved'[1]
                /\ DOMAIN saved'[1] = DOMAIN before \cup {"locations"}
                /\ \A k \in DOMAIN before \ {"locations"} : saved'[1][k] = before[k]
                /\ DOMAIN saved'[1].locations = DOMAIN old \cup {name}
                /\ saved'[1].locations[name] = address
                /\ \A m \in DOMAIN old \ {name} : saved'[1].locations[m] = old[m]
                /\ get_location(name)' = address
                /\ \A m \in Names \ {name} : get_location(m)' = get_location(m)
    /\ command'.name # "set-location" =>
          /\ \A m \in Names : get_location(m)' = get_location(m)
          /\ Len(saved') = 0

C15_SetLocationKeepsOthers == [][C15_SetLocationStep]_vars

C15_Witness ==
    /\ pc = "done"
    /\ command = [name |-> "set-location", args |-> <<"Gym", HOME>>]
    /\ saved = <<config_doc>>
    /\ config_doc.locations = [home |-> "", work |-> ELSEWHERE, gym |-> HOME]
    /\ config_doc.waze_api_key = "key"

\* C16: without a configuration file the configuration is the built-in home and
\* work addresses, each replaced by its environment variable when set, and the
\* API key from the environment or ""; with a file it is the file's document,
\* whatever the environment holds.  The locations listing shows its locations.
C16_ConfigFromFileOrEnvironment ==
    /\ ~config_exists =>
          get_config =
             [locations |->
                 [home |-> IF "WAZE_HOME_LOCATION" \in DOMAIN environ
                           THEN environ.WAZE_HOME_LOCATION ELSE HOME,
                  work |-> IF "WAZE_WORK_LOCATION" \in DOMAIN environ
                           THEN environ.WAZE_WORK_LOCATION ELSE WORK],
              waze_api_key |-> IF "WAZE_API_KEY" \in DOMAIN environ
                               THEN environ.WAZE_API_KEY ELSE ""]
    /\ config_exists => get_config = config_doc
    /\ (pc = "done" /\ command = [name |-> "locations", args |-> <<"">>]) =>
          /\ exit_code = 0
          /\ IF config_exists
             THEN IF "locations" \in DOMAIN config_doc /\ DOMAIN config_doc.locations # {}
                  THEN console = << [table |-> "Saved Locations", rows |-> config_doc.locations] >>
                  ELSE console = << <<"No locations set", "", "">> >>
             ELSE /\ Len(console) = 1
                  /\ DOMAIN console[1].rows = {"home", "work"}

C16_Witness ==
    /\ pc = "done"
    /\ command = [name |-> "locations", args |-> <<"">>]
    /\ ~config_exists
    /\ "WAZE_API_KEY" \in DOMAIN environ
    /\ console = << [table |-> "Saved Locations",
                     rows |-> [home |-> ELSEWHERE, work |-> ""]] >>

\* The position in requests of the routing request, 0 when there is none.
RoutingIndex ==
    IF \E i \in 1..Len(requests) : requests[i].kind = "routing"
    THEN CHOOSE i \in 1..Len(requests) : requests[i].kind = "routing"
    ELSE 0

Geocoded(address) ==
    \E i \in 1..Len(requests) : requests[i] = GeocodeRequest(address)

ResolvedAddress(i) == IF i = 1 THEN origin_address ELSE destination_address

\* C17 as stated: an address of the fallback table is resolved from the table
\* with no live geocoding request; any other address is geocoded live and gets
\* the default coordinate when that fails; the routing request always follows.
C17_TableBeforeLive ==
    (pc \in {"done", "routed"} /\ requests # <<>>) =>
        /\ RoutingIndex = Len(requests)
        /\ \A i \in 1..2 :
              LET address == ResolvedAddress(i)
                  coordinates == requests[RoutingIndex].ll[i]
              IN IF address \in {HOME, WORK}
                 THEN /\ ~Geocoded(address)
                      /\ coordinates = (IF address = HOME THEN <<-318941, 1157586>>
                                                         ELSE <<-319523, 1158613>>)
                 ELSE /\ Geocoded(address)
                      /\ coordinates = (IF geocode_data[i].kind = "hit"
                                        THEN geocode_data[i].location
                                        ELSE <<-319505, 1158605>>)

\* C17 amended: every address is first geocoded live, and the first result is
\* used when there is one; when the request fails or has no result, an address
\* of the fallback table gets its table coordinate and any other address the
\* default coordinate.  The routing request is always issued afterwards, as the
\* third and last request.
C17_LiveBeforeTable ==
    (pc \in {"done", "routed"} /\ requests # <<>>) =>
        /\ Len(requests) = 3
        /\ RoutingIndex = 3
        /\ requests[3].na = <<origin_address, destination_address>>
        /\ \A i \in 1..2 :
              LET address == ResolvedAddress(i)
                  coordinates == requests[3].ll[i]
              IN /\ requests[i] = [kind |-> "geocode", na |-> <<address>>, ll |-> <<>>]
                 /\ coordinates =
                       (IF geocode_data[i].kind = "hit" THEN geocode_data[i].location
                        ELSE IF address = HOME THEN <<-318941, 1157586>>
                        ELSE IF address = WORK THEN <<-319523, 1158613>>
                        ELSE <<-319505, 1158605>>)

C17_Witness ==
    /\ pc = "done"
    /\ command.name = "work"
    /\ origin_address = HOME
    /\ destination_address = WORK
    /\ geocode_data[1].kind = "hit"
    /\ geocode_data[2].kind = "raise"
    /\ requests[3].ll = << <<-319000, 1158000>>, <<-319523, 1158613>> >>

====
